---------------------------- MODULE Spec2Model ----------------------------
(***************************************************************************)
(* Model of py_backend/clara_task_processor.py: the rule-based voice       *)
(* command parser (VoiceCommandParser), the in-memory task store           *)
(* (TaskManager) and the dispatcher (ClaraTaskProcessor).                  *)
(*                                                                         *)
(* Python str values are TLA+ strings; a character is a string of length   *)
(* one, read with SubSeq(s, i, i).  Regular expressions are kept as the    *)
(* syntax trees of the source patterns and run by a backtracking matcher   *)
(* with Python's preference order (leftmost start, greedy repetition,      *)
(* alternatives left to right).                                            *)
(***************************************************************************)
EXTENDS Integers, Sequences, FiniteSets, TLC

VARIABLES
    text,       \* the argument of the call in progress / last call
    cmd,        \* the VoiceCommand last returned by parse_command
    response,   \* the string last returned to the caller
    tasks_db,   \* TaskManager.tasks_db, in dict (insertion) order
    uuid_next,  \* number of ids handed out so far by uuid.uuid4()
    now,        \* the reading of datetime.now()
    pc,         \* which operation produced the current state
    loop        \* the event loop: the coroutine that runs and the frames of
                \* the calls that were scheduled on it

vars == <<text, cmd, response, tasks_db, uuid_next, now, pc, loop>>

\* an event loop on which no call is scheduled
NoLoop == [running |-> 0, frames |-> << >>]

-----------------------------------------------------------------------------
(* Bounds of the model *)

\* an utterance is at most MaxParts phrases joined by single spaces
MaxParts == 2

\* SpecLoop schedules at most MaxCalls dispatches at a time on the event loop
MaxCalls == 2

\* the store that list_tasks is applied to in SpecList holds at most MaxListed tasks
MaxListed == 3

\* the creation times of those tasks are readings 0..MaxStamp of the clock
MaxStamp == 2

\* the task store holds at most MaxTasks tasks
MaxTasks == 2

\* at most MaxIds identifiers are drawn from uuid.uuid4()
MaxIds == 2

\* the clock datetime.now() reads advances at most MaxClock times
MaxClock == 1

-----------------------------------------------------------------------------
(* Python str helpers *)

CharAt(s, i) == SubSeq(s, i, i)

\* the characters str.strip() removes and \s matches
Whitespace == {" ", "\t", "\n", "\r", "\f"}

Digits == {"0", "1", "2", "3", "4", "5", "6", "7", "8", "9"}

UpperCase == "ABCDEFGHIJKLMNOPQRSTUVWXYZ"

LowerCase == "abcdefghijklmnopqrstuvwxyz"

\* the lower-case form of each upper-case letter
LowerOf ==
    [c \in {CharAt(UpperCase, k) : k \in 1..Len(UpperCase)} |->
        CharAt(LowerCase, CHOOSE k \in 1..Len(UpperCase) : CharAt(UpperCase, k) = c)]

LowerChar(c) == IF c \in DOMAIN LowerOf THEN LowerOf[c] ELSE c

RECURSIVE LowerFrom(_, _)
LowerFrom(s, i) ==
    IF i > Len(s) THEN "" ELSE LowerChar(CharAt(s, i)) \o LowerFrom(s, i + 1)

\* str.lower()
str_lower(s) == LowerFrom(s, 1)

\* str.strip()
str_strip(s) ==
    LET keep == {i \in 1..Len(s) : CharAt(s, i) \notin Whitespace}
    IN  IF keep = {} THEN ""
        ELSE SubSeq(s, CHOOSE i \in keep : \A j \in keep : i <= j,
                       CHOOSE i \in keep : \A j \in keep : i >= j)

\* `word in s`
Contains(s, word) ==
    \E i \in 1..(Len(s) - Len(word) + 1) : SubSeq(s, i, i + Len(word) - 1) = word

\* any(word in s for word in words)
ContainsAny(s, words) == \E k \in 1..Len(words) : Contains(s, words[k])

-----------------------------------------------------------------------------
(* Regular expressions: syntax trees and the backtracking matcher *)

Lit(s)     == [t |-> "lit", s |-> s]
Alt(ps)    == [t |-> "alt", ps |-> ps]                \* (?:p1|p2|...)
Opt(p)     == [t |-> "alt", ps |-> <<p, <<>>>>]       \* (?:p)? , greedy
Grp(n, p)  == [t |-> "grp", n |-> n, p |-> p]         \* n-th capturing group
Rep(cls, lo, hi) == [t |-> "rep", cls |-> cls, lo |-> lo, hi |-> hi]
Many(cls, lo)    == [t |-> "rep", cls |-> cls, lo |-> lo, hi |-> -1]

Words(ws)  == Alt([k \in 1..Len(ws) |-> <<Lit(ws[k])>>])   \* (?:w1|w2|...)
WsPlus     == Many("space", 1)                        \* \s+
WsStar     == Many("space", 0)                        \* \s*
AnyPlus    == Many("any", 1)                          \* .+

InClass(cls, c) ==
    CASE cls = "space" -> c \in Whitespace
      [] cls = "digit" -> c \in Digits
      [] cls = "any"   -> c # "\n"

\* number of consecutive characters of the class starting at pos
RECURSIVE Run(_, _, _)
Run(cls, s, pos) ==
    IF pos <= Len(s) /\ InClass(cls, CharAt(s, pos)) THEN 1 + Run(cls, s, pos + 1) ELSE 0

\* A match state is <<pos, gs, ge>>: the next position to read and the span
\* [gs, ge) of capturing group 1 (gs = 0 while the group has not taken part).
\* MatchSeq and MatchElem return every way the pattern can match from a
\* state, in the order the backtracking engine tries them.
RECURSIVE MatchSeq(_, _, _, _), MatchElem(_, _, _), MatchEach(_, _, _, _, _), MatchAlts(_, _, _, _)

MatchElem(e, s, st) ==
    CASE e.t = "lit" ->
            IF /\ st[1] + Len(e.s) - 1 <= Len(s)
               /\ SubSeq(s, st[1], st[1] + Len(e.s) - 1) = e.s
            THEN << <<st[1] + Len(e.s), st[2], st[3]>> >>
            ELSE << >>
      [] e.t = "rep" ->
            LET n  == Run(e.cls, s, st[1])
                mx == IF e.hi >= 0 /\ e.hi < n THEN e.hi ELSE n
            IN  IF mx < e.lo THEN << >>
                ELSE [k \in 1..(mx - e.lo + 1) |-> <<st[1] + mx - k + 1, st[2], st[3]>>]
      [] e.t = "alt" -> MatchAlts(e.ps, 1, s, st)
      [] e.t = "grp" ->
            LET rs == MatchSeq(e.p, 1, s, st)
            IN  IF e.n = 1
                THEN [k \in 1..Len(rs) |-> <<rs[k][1], st[1], rs[k][1]>>]
                ELSE rs

MatchAlts(ps, k, s, st) ==
    IF k > Len(ps) THEN << >>
    ELSE MatchSeq(ps[k], 1, s, st) \o MatchAlts(ps, k + 1, s, st)

MatchEach(rs, k, p, i, s) ==
    IF k > Len(rs) THEN << >>
    ELSE MatchSeq(p, i, s, rs[k]) \o MatchEach(rs, k + 1, p, i, s)

MatchSeq(p, i, s, st) ==
    IF i > Len(p) THEN <<st>>
    ELSE MatchEach(MatchElem(p[i], s, st), 1, p, i + 1, s)

NoMatch == [found |-> FALSE]

\* re.search(pattern, s): the preferred match at the leftmost start position
RECURSIVE SearchFrom(_, _, _)
SearchFrom(p, s, start) ==
    IF start > Len(s) + 1 THEN NoMatch
    ELSE LET rs == MatchSeq(p, 1, s, <<start, 0, 0>>)
         IN  IF rs # << >>
             THEN [found |-> TRUE,
                   group0 |-> SubSeq(s, start, rs[1][1] - 1),
                   group1 |-> IF rs[1][2] = 0 THEN "" ELSE SubSeq(s, rs[1][2], rs[1][3] - 1)]
             ELSE SearchFrom(p, s, start + 1)

re_search(p, s) == SearchFrom(p, s, 1)

\* len(match.groups()): the number of capturing groups of the pattern
RECURSIVE NGroups(_, _), NGroupsAlts(_, _)
NGroups(p, i) ==
    IF i > Len(p) THEN 0
    ELSE (CASE p[i].t = "grp" -> 1 + NGroups(p[i].p, 1)
            [] p[i].t = "alt" -> NGroupsAlts(p[i].ps, 1)
            [] OTHER -> 0) + NGroups(p, i + 1)
NGroupsAlts(ps, k) ==
    IF k > Len(ps) THEN 0 ELSE NGroups(ps[k], 1) + NGroupsAlts(ps, k + 1)

-----------------------------------------------------------------------------
(* VoiceCommandParser.__init__: the pattern tables *)

\* (.+)
Capture == Grp(1, <<AnyPlus>>)

\* the create patterns with "remind me to" mandatory in the third one:
\* remind\s+me\s+to\s+(.+)
CreatePatternsRemindOnly == <<
    << Words(<<"create", "add", "make", "new">>), WsPlus, Opt(<<Lit("a"), WsPlus>>),
       Lit("task"), WsPlus, Opt(<<Lit("to"), WsPlus>>), Capture >>,
    << Opt(<<Lit("i"), WsPlus>>),
       Alt(<< <<Lit("need"), WsPlus, Lit("to")>>,
              <<Lit("want"), WsPlus, Lit("to")>>,
              <<Lit("have"), WsPlus, Lit("to")>> >>),
       WsPlus, Capture >>,
    << Lit("remind"), WsPlus, Lit("me"), WsPlus, Lit("to"), WsPlus, Capture >>,
    << Words(<<"schedule", "plan">>), WsPlus, Opt(<<Lit("to"), WsPlus>>), Capture >> >>

\* task_patterns['create']
CreatePatterns == <<
    \* (?:create|add|make|new)\s+(?:a\s+)?task\s+(?:to\s+)?(.+)
    << Words(<<"create", "add", "make", "new">>), WsPlus, Opt(<<Lit("a"), WsPlus>>),
       Lit("task"), WsPlus, Opt(<<Lit("to"), WsPlus>>), Capture >>,
    \* (?:i\s+)?(?:need\s+to|want\s+to|have\s+to)\s+(.+)
    << Opt(<<Lit("i"), WsPlus>>),
       Alt(<< <<Lit("need"), WsPlus, Lit("to")>>,
              <<Lit("want"), WsPlus, Lit("to")>>,
              <<Lit("have"), WsPlus, Lit("to")>> >>),
       WsPlus, Capture >>,
    \* (?:remind\s+me\s+to\s+)?(.+)
    << Opt(<<Lit("remind"), WsPlus, Lit("me"), WsPlus, Lit("to"), WsPlus>>), Capture >>,
    \* (?:schedule|plan)\s+(?:to\s+)?(.+)
    << Words(<<"schedule", "plan">>), WsPlus, Opt(<<Lit("to"), WsPlus>>), Capture >> >>

\* task_patterns['complete']
CompletePatterns == <<
    \* (?:complete|finish|done|finished)\s+(?:task\s+)?(.+)
    << Words(<<"complete", "finish", "done", "finished">>), WsPlus,
       Opt(<<Lit("task"), WsPlus>>), Capture >>,
    \* (?:mark\s+)?(.+)\s+(?:as\s+)?(?:complete|done|finished)
    << Opt(<<Lit("mark"), WsPlus>>), Capture, WsPlus, Opt(<<Lit("as"), WsPlus>>),
       Words(<<"complete", "done", "finished">>) >>,
    \* i(?:\'ve|\s+have)\s+(?:completed|finished|done)\s+(.+)
    << Lit("i"), Alt(<< <<Lit("'ve")>>, <<WsPlus, Lit("have")>> >>), WsPlus,
       Words(<<"completed", "finished", "done">>), WsPlus, Capture >> >>

\* task_patterns['list']
ListPatterns == <<
    \* (?:show|list|display|get)\s+(?:my\s+)?tasks?
    << Words(<<"show", "list", "display", "get">>), WsPlus, Opt(<<Lit("my"), WsPlus>>),
       Lit("task"), Opt(<<Lit("s")>>) >>,
    \* what\s+(?:do\s+i\s+)?(?:need\s+to\s+)?(?:do|complete)
    << Lit("what"), WsPlus, Opt(<<Lit("do"), WsPlus, Lit("i"), WsPlus>>),
       Opt(<<Lit("need"), WsPlus, Lit("to"), WsPlus>>), Words(<<"do", "complete">>) >>,
    \* (?:what\s+are\s+)?my\s+(?:pending|active|current)\s+tasks?
    << Opt(<<Lit("what"), WsPlus, Lit("are"), WsPlus>>), Lit("my"), WsPlus,
       Words(<<"pending", "active", "current">>), WsPlus, Lit("task"), Opt(<<Lit("s")>>) >> >>

\* task_patterns['delete']
DeletePatterns == <<
    \* (?:delete|remove|cancel)\s+(?:task\s+)?(.+)
    << Words(<<"delete", "remove", "cancel">>), WsPlus, Opt(<<Lit("task"), WsPlus>>), Capture >>,
    \* (?:get\s+rid\s+of|eliminate)\s+(.+)
    << Alt(<< <<Lit("get"), WsPlus, Lit("rid"), WsPlus, Lit("of")>>, <<Lit("eliminate")>> >>),
       WsPlus, Capture >> >>

\* task_patterns['update']
UpdatePatterns == <<
    \* (?:update|modify|change)\s+(?:task\s+)?(.+)
    << Words(<<"update", "modify", "change">>), WsPlus, Opt(<<Lit("task"), WsPlus>>), Capture >>,
    \* (?:set|make)\s+(.+)\s+(?:to\s+)?(.+)
    << Words(<<"set", "make">>), WsPlus, Capture, WsPlus, Opt(<<Lit("to"), WsPlus>>),
       Grp(2, <<AnyPlus>>) >> >>

\* the keys of task_patterns in dict (insertion) order
Operations == <<"create", "complete", "list", "delete", "update">>

task_patterns ==
    [ create   |-> CreatePatterns,
      complete |-> CompletePatterns,
      list     |-> ListPatterns,
      delete   |-> DeletePatterns,
      update   |-> UpdatePatterns ]

time_patterns == <<
    \* (?:by|before|until)\s+(tomorrow|next\s+week|friday|end\s+of\s+day)
    << Words(<<"by", "before", "until">>), WsPlus,
       Grp(1, << Alt(<< <<Lit("tomorrow")>>,
                        <<Lit("next"), WsPlus, Lit("week")>>,
                        <<Lit("friday")>>,
                        <<Lit("end"), WsPlus, Lit("of"), WsPlus, Lit("day")>> >>) >>) >>,
    \* (?:in|within)\s+(\d+)\s+(hours?|days?|weeks?|months?)
    << Words(<<"in", "within">>), WsPlus, Grp(1, <<Many("digit", 1)>>), WsPlus,
       Grp(2, << Alt(<< <<Lit("hour"), Opt(<<Lit("s")>>)>>,
                        <<Lit("day"), Opt(<<Lit("s")>>)>>,
                        <<Lit("week"), Opt(<<Lit("s")>>)>>,
                        <<Lit("month"), Opt(<<Lit("s")>>)>> >>) >>) >>,
    \* (?:at|on)\s+(\d{1,2}(?::\d{2})?\s*(?:am|pm)?)
    << Words(<<"at", "on">>), WsPlus,
       Grp(1, << Rep("digit", 1, 2), Opt(<<Lit(":"), Rep("digit", 2, 2)>>), WsStar,
                 Opt(<<Words(<<"am", "pm">>)>>) >>) >> >>

-----------------------------------------------------------------------------
(* Python dict with str keys and str values *)

EmptyDict == [k \in {} |-> ""]

Put(d, key, value) == [k \in DOMAIN d \cup {key} |-> IF k = key THEN value ELSE d[k]]

\* {**base, **extra}: the keys of extra override those of base
Merge(base, extra) ==
    [k \in DOMAIN base \cup DOMAIN extra |-> IF k \in DOMAIN extra THEN extra[k] ELSE base[k]]

\* d.get(key, default)
Get(d, key, default) == IF key \in DOMAIN d THEN d[key] ELSE default

-----------------------------------------------------------------------------
(* VoiceCommandParser._extract_parameters *)

\* the loop that records the captured group instead of the whole match
RECURSIVE ExtractTimeCaptured(_, _, _)
ExtractTimeCaptured(parameters, s, k) ==
    IF k > Len(time_patterns) THEN parameters
    ELSE LET match == re_search(time_patterns[k], s)
         IN  ExtractTimeCaptured(IF match.found
                                 THEN Put(parameters, "time_reference", match.group1)
                                 ELSE parameters,
                                 s, k + 1)

\* for pattern in self.time_patterns: every matching pattern assigns
\* parameters["time_reference"]; the loop has no break
RECURSIVE ExtractTime(_, _, _)
ExtractTime(parameters, s, k) ==
    IF k > Len(time_patterns) THEN parameters
    ELSE LET match == re_search(time_patterns[k], s)
         IN  ExtractTime(IF match.found
                         THEN Put(parameters, "time_reference", match.group0)
                         ELSE parameters,
                         s, k + 1)

HighWords == <<"urgent", "asap", "immediately", "high priority">>

LowWords == <<"low", "whenever", "someday">>

\* the two vocabularies checked in the other order
ExtractPriorityLowFirst(s) ==
    IF ContainsAny(s, LowWords) THEN "low"
    ELSE IF ContainsAny(s, HighWords) THEN "high"
    ELSE "medium"

ExtractPriority(s) ==
    IF ContainsAny(s, HighWords) THEN "high"
    ELSE IF ContainsAny(s, LowWords) THEN "low"
    ELSE "medium"

\* 'personal' checked before 'work' and 'job'
ExtractContextPersonalFirst(parameters, s) ==
    IF Contains(s, "personal") THEN Put(parameters, "context", "personal")
    ELSE IF Contains(s, "work") \/ Contains(s, "job") THEN Put(parameters, "context", "work")
    ELSE parameters

ExtractContext(parameters, s) ==
    IF Contains(s, "work") \/ Contains(s, "job") THEN Put(parameters, "context", "work")
    ELSE IF Contains(s, "personal") THEN Put(parameters, "context", "personal")
    ELSE parameters

\* the extraction that also returns a description: the whole text
extract_parameters_describing(s, operation, entity) ==
    Put(ExtractContext(Put(ExtractTime(EmptyDict, s, 1), "priority", ExtractPriority(s)), s),
        "description", s)

extract_parameters(s, operation, entity) ==
    ExtractContext(Put(ExtractTime(EmptyDict, s, 1), "priority", ExtractPriority(s)), s)

-----------------------------------------------------------------------------
(* VoiceCommandParser.parse_command *)

\* text = text.lower().strip()
Normalize(raw) == str_strip(str_lower(raw))

\* the traversal of the two nested for loops: <<operation, pattern index>>
RECURSIVE TraversalFrom(_)
TraversalFrom(o) ==
    IF o > Len(Operations) THEN << >>
    ELSE [j \in 1..Len(task_patterns[Operations[o]]) |-> <<Operations[o], j>>]
         \o TraversalFrom(o + 1)

\* the traversal run backwards: the last matching pattern would win
TraversalReversed ==
    LET tr == TraversalFrom(1) IN [k \in 1..Len(tr) |-> tr[Len(tr) + 1 - k]]

Traversal == TraversalFrom(1)

PatternAt(tr, k) == task_patterns[tr[k][1]][tr[k][2]]

MatchedCommand(operation, pattern, match, s) ==
    LET entity == str_strip(IF NGroups(pattern, 1) >= 1 THEN match.group1 ELSE "")
    IN  [ action     |-> operation,
          entity     |-> "task",
          parameters |-> Merge([operation |-> operation, description |-> entity],
                               extract_parameters(s, operation, entity)),
          confidence |-> 1,
          raw_text   |-> s ]

\* a fallback that also fills in the default priority
UnknownCommandWithPriority(original_text) ==
    [ action     |-> "unknown",
      entity     |-> "unknown",
      parameters |-> [raw_text |-> original_text, priority |-> "medium"],
      confidence |-> 1,
      raw_text   |-> original_text ]

\* the default fallback
UnknownCommand(original_text) ==
    [ action     |-> "unknown",
      entity     |-> "unknown",
      parameters |-> [raw_text |-> original_text],
      confidence |-> 1,
      raw_text   |-> original_text ]

RECURSIVE ParseFrom(_, _, _)
ParseFrom(tr, s, k) ==
    IF k > Len(tr) THEN UnknownCommand(s)
    ELSE LET match == re_search(PatternAt(tr, k), s)
         IN  IF match.found
             THEN MatchedCommand(tr[k][1], PatternAt(tr, k), match, s)
             ELSE ParseFrom(tr, s, k + 1)

\* the object None; the str "None" is not among the texts of the model
None == "None"

\* str(e) of the AttributeError that None.lower() raises
NoLowerAttribute == "'NoneType' object has no attribute 'lower'"

\* the outcome of a call that raised an exception
Raise(message) == [raised |-> message]

Raised(outcome) == "raised" \in DOMAIN outcome

\* VoiceCommandParser.parse_command: a VoiceCommand, or the exception of
\* text.lower() when the text is None
parse_command(raw) ==
    IF raw = None THEN Raise(NoLowerAttribute) ELSE ParseFrom(Traversal, Normalize(raw), 1)

-----------------------------------------------------------------------------
(* The utterances the model feeds to the parser *)

Phrases ==
    { "create a task to", "I need to", "mark buy milk", "Buy Milk", "as done",
      "by friday", "in 2 days", "at 5pm",
      "urgent", "asap", "immediately", "high priority", "low", "whenever", "someday",
      "work", "job", "personal",
      "hello there", "show my tasks", "buy\nmilk", " " }

RECURSIVE Join(_)
Join(ps) ==
    IF ps = << >> THEN ""
    ELSE IF Len(ps) = 1 THEN ps[1]
    ELSE ps[1] \o " " \o Join(Tail(ps))

\* up to n phrases joined by single spaces
UtterancesOf(n) == UNION { { Join(ps) : ps \in [1..k -> Phrases] } : k \in 0..n }

Utterances == UtterancesOf(MaxParts)

NoCommand == [action |-> "none"]

-----------------------------------------------------------------------------
(* SpecParse: parse_command as a pure function of its argument *)

\* whole utterances sent to the parser besides the joined phrases
Scenarios == { "I need to buy milk by tomorrow", "I need to finish work by friday" }

InitParse ==
    /\ text \in Utterances \cup Scenarios
    /\ cmd = NoCommand
    /\ response = ""
    /\ tasks_db = << >>
    /\ uuid_next = 0
    /\ now = 0
    /\ pc = "call"
    /\ loop = NoLoop

ParseCommand ==
    /\ pc = "call"
    /\ cmd' = parse_command(text)
    /\ pc' = "parsed"
    /\ UNCHANGED <<text, response, tasks_db, uuid_next, now, loop>>

NextParse == ParseCommand

SpecParse == InitParse /\ [][NextParse]_vars

-----------------------------------------------------------------------------
(* TaskManager: tasks_db is the dict task_id -> task, kept as the sequence  *)
(* of its values in insertion order (the key of a task is its "id")         *)

\* str(n) for a natural number
RECURSIVE IntToStr(_)
IntToStr(n) ==
    IF n < 10 THEN CharAt("0123456789", n + 1)
    ELSE IntToStr(n \div 10) \o CharAt("0123456789", (n % 10) + 1)

\* str(uuid.uuid4()): the n-th identifier drawn; no two draws are equal
Uuid(n) == "u" \o IntToStr(n)

\* the assignment that replaces the whole store by the one task
DictSetAlone(db, task) == <<task>>

\* self.tasks_db[task_id] = task
DictSet(db, task) ==
    IF \E i \in 1..Len(db) : db[i].id = task.id
    THEN [i \in 1..Len(db) |-> IF db[i].id = task.id THEN task ELSE db[i]]
    ELSE Append(db, task)

\* the deletion of every task that has the description of the task of that id
DictDelByDescription(db, task_id) ==
    SelectSeq(db, LAMBDA t : \A i \in 1..Len(db) :
                                 db[i].id = task_id => t.description # db[i].description)

\* del self.tasks_db[task_id]
DictDel(db, task_id) == SelectSeq(db, LAMBDA t : t.id # task_id)

NewTask(task_id, description, priority, due_date, created_at) ==
    [ id            |-> task_id,
      description   |-> description,
      priority      |-> priority,
      status        |-> "pending",
      created_at    |-> created_at,
      due_date      |-> due_date,
      voice_created |-> TRUE ]

\* TaskManager.create_task
create_task(db, description, priority, due_date, task_id, created_at) ==
    [ db       |-> DictSet(db, NewTask(task_id, description, priority, due_date, created_at)),
      response |-> "Task created: " \o description ]

\* the lookup that passes over completed tasks in its description match
find_task_pending(db, identifier) ==
    IF \E i \in 1..Len(db) : db[i].id = identifier
    THEN CHOOSE i \in 1..Len(db) : db[i].id = identifier
    ELSE LET hits == {i \in 1..Len(db) :
                         /\ db[i].status # "completed"
                         /\ Contains(str_lower(db[i].description), str_lower(identifier))}
         IN  IF hits = {} THEN 0 ELSE CHOOSE i \in hits : \A j \in hits : i <= j

\* the lookup without the exact id match: description match only
find_task_by_description(db, identifier) ==
    LET hits == {i \in 1..Len(db) :
                    Contains(str_lower(db[i].description), str_lower(identifier))}
    IN  IF hits = {} THEN 0 ELSE CHOOSE i \in hits : \A j \in hits : i <= j

\* TaskManager._find_task: the index in db of the task found, 0 for None
find_task(db, identifier) ==
    IF \E i \in 1..Len(db) : db[i].id = identifier
    THEN CHOOSE i \in 1..Len(db) : db[i].id = identifier
    ELSE LET hits == {i \in 1..Len(db) :
                         Contains(str_lower(db[i].description), str_lower(identifier))}
         IN  IF hits = {} THEN 0 ELSE CHOOSE i \in hits : \A j \in hits : i <= j

\* the completion that records no completion time
CompletedWithoutTime(task, at) == [task EXCEPT !.status = "completed"]

\* task["status"] = "completed"; task["completed_at"] = datetime.now()
Completed(task, at) ==
    [k \in DOMAIN task \cup {"completed_at"} |->
        IF k = "status" THEN "completed" ELSE IF k = "completed_at" THEN at ELSE task[k]]

\* the completion that falls back to the oldest task when the lookup misses
complete_task_oldest(db, task_identifier, at) ==
    LET i == find_task(db, task_identifier)
    IN  IF i = 0 /\ db = << >>
        THEN [db |-> db, response |-> "Task not found: " \o task_identifier]
        ELSE IF i = 0
        THEN [db |-> [db EXCEPT ![1] = Completed(db[1], at)],
              response |-> "Task not found: " \o task_identifier]
        ELSE [db |-> [db EXCEPT ![i] = Completed(db[i], at)],
              response |-> "Marked as completed: " \o db[i].description]

\* TaskManager.complete_task
complete_task(db, task_identifier, at) ==
    LET i == find_task(db, task_identifier)
    IN  IF i = 0
        THEN [db |-> db, response |-> "Task not found: " \o task_identifier]
        ELSE [db |-> [db EXCEPT ![i] = Completed(db[i], at)],
              response |-> "Marked as completed: " \o db[i].description]

\* the deletion that answers without removing the task
delete_task_kept(db, task_identifier) ==
    LET i == find_task(db, task_identifier)
    IN  IF i = 0
        THEN [db |-> db, response |-> "Task not found: " \o task_identifier]
        ELSE [db |-> db, response |-> "Deleted task: " \o db[i].description]

\* TaskManager.delete_task
delete_task(db, task_identifier) ==
    LET i == find_task(db, task_identifier)
    IN  IF i = 0
        THEN [db |-> db, response |-> "Task not found: " \o task_identifier]
        ELSE [db |-> DictDel(db, db[i].id),
              response |-> "Deleted task: " \o db[i].description]

\* priority_order.get(t["priority"], 1)
PriorityOrder(priority) ==
    CASE priority = "high" -> 0
      [] priority = "medium" -> 1
      [] priority = "low" -> 2
      [] OTHER -> 1

\* the sort key without the priority: creation time only
KeyLeqCreatedAt(a, b) == a.created_at <= b.created_at

\* the sort key (priority_order.get(t["priority"], 1), t["created_at"])
KeyLeq(a, b) ==
    \/ PriorityOrder(a.priority) < PriorityOrder(b.priority)
    \/ /\ PriorityOrder(a.priority) = PriorityOrder(b.priority)
       /\ a.created_at <= b.created_at

\* list.sort(key=...): stable, ascending
RECURSIVE InsertSorted(_, _)
InsertSorted(sorted, t) ==
    IF sorted = << >> THEN <<t>>
    ELSE IF KeyLeq(sorted[Len(sorted)], t) THEN Append(sorted, t)
    ELSE Append(InsertSorted(SubSeq(sorted, 1, Len(sorted) - 1), t), sorted[Len(sorted)])

RECURSIVE SortFrom(_, _, _)
SortFrom(ts, i, sorted) ==
    IF i > Len(ts) THEN sorted ELSE SortFrom(ts, i + 1, InsertSorted(sorted, ts[i]))

SortTasks(ts) == SortFrom(ts, 1, << >>)

\* the status icons of the listing (a check mark and an hourglass in the source)
DoneIcon == "[v]"

PendingIcon == "[ ]"

TaskLine(task) ==
    (IF task.status = "completed" THEN DoneIcon ELSE PendingIcon)
        \o " " \o task.description \o " (" \o task.priority \o " priority)"

\* "\n".join(task_list)
RECURSIVE JoinLines(_, _)
JoinLines(ts, i) ==
    IF i > Len(ts) THEN ""
    ELSE IF i = Len(ts) THEN TaskLine(ts[i])
    ELSE TaskLine(ts[i]) \o "\n" \o JoinLines(ts, i + 1)

\* the tasks of the listing, in listing order; `if status_filter:` is false for
\* None and for the empty string
ListedTasks(db, status_filter) ==
    SortTasks(IF status_filter # None /\ status_filter # ""
              THEN SelectSeq(db, LAMBDA t : t.status = status_filter)
              ELSE db)

\* the listing without the `if not tasks` return
list_tasks_always_counted(db, status_filter) ==
    LET tasks == ListedTasks(db, status_filter)
    IN  [ db       |-> db,
          response |-> "You have " \o IntToStr(Len(tasks)) \o " tasks:\n"
                       \o JoinLines(tasks, 1) ]

\* the listing that sorts the store itself instead of a copy of its values
list_tasks_sorting_store(db, status_filter) ==
    LET tasks == ListedTasks(db, status_filter)
    IN  [ db       |-> SortTasks(db),
          response |-> IF tasks = << >> THEN "No tasks found."
                       ELSE "You have " \o IntToStr(Len(tasks)) \o " tasks:\n"
                            \o JoinLines(tasks, 1) ]

\* TaskManager.list_tasks
list_tasks(db, status_filter) ==
    LET tasks == ListedTasks(db, status_filter)
    IN  [ db       |-> db,
          response |-> IF tasks = << >> THEN "No tasks found."
                       ELSE "You have " \o IntToStr(Len(tasks)) \o " tasks:\n"
                            \o JoinLines(tasks, 1) ]

-----------------------------------------------------------------------------
(* ClaraTaskProcessor *)

NeedDetails == "I need more details about what task you'd like me to create or manage."

UpdateNotImplemented ==
    "Task updates aren't implemented yet. I can create, complete, list, and delete tasks."

\* the dispatch without the update branch: update falls through to the last return
process_task_command_without_update(db, command, task_id, at) ==
    LET operation   == Get(command.parameters, "operation", None)
        description == Get(command.parameters, "description", "")
    IN  IF description = "" THEN [db |-> db, response |-> NeedDetails]
        ELSE CASE operation = "create" ->
                    create_task(db, description, Get(command.parameters, "priority", "medium"),
                                None, task_id, at)
               [] operation = "complete" -> complete_task(db, description, at)
               [] operation = "list" -> list_tasks(db, None)
               [] operation = "delete" -> delete_task(db, description)
               [] OTHER -> [db |-> db, response |-> "Unknown task operation: " \o operation]

\* the dispatch without the empty-description gate
process_task_command_ungated(db, command, task_id, at) ==
    LET operation   == Get(command.parameters, "operation", None)
        description == Get(command.parameters, "description", "")
    IN  CASE operation = "create" ->
                create_task(db, description, Get(command.parameters, "priority", "medium"),
                            None, task_id, at)
          [] operation = "complete" -> complete_task(db, description, at)
          [] operation = "list" -> list_tasks(db, None)
          [] operation = "delete" -> delete_task(db, description)
          [] operation = "update" -> [db |-> db, response |-> UpdateNotImplemented]
          [] OTHER -> [db |-> db, response |-> "Unknown task operation: " \o operation]

\* ClaraTaskProcessor._process_task_command
process_task_command(db, command, task_id, at) ==
    LET operation   == Get(command.parameters, "operation", None)
        description == Get(command.parameters, "description", "")
    IN  IF description = "" THEN [db |-> db, response |-> NeedDetails]
        ELSE CASE operation = "create" ->
                    create_task(db, description, Get(command.parameters, "priority", "medium"),
                                None, task_id, at)
               [] operation = "complete" -> complete_task(db, description, at)
               [] operation = "list" -> list_tasks(db, None)
               [] operation = "delete" -> delete_task(db, description)
               [] operation = "update" -> [db |-> db, response |-> UpdateNotImplemented]
               [] OTHER -> [db |-> db, response |-> "Unknown task operation: " \o operation]

TaskHelp ==
    "I can help you manage tasks. Try saying 'create a task to [description]' or 'show my tasks'."

FileHelp ==
    "I can help with file operations. Try saying 'open [filename]' or 'read [document]'."

WebHelp ==
    "I can help with web browsing. Try saying 'open [website]' or 'search for [topic]'."

GenericHelp ==
    "I'm not sure what you'd like me to do. I can help with tasks, files, browsing, and applications. Try being more specific!"

\* ClaraTaskProcessor._handle_unknown_command
handle_unknown_command(command_text) ==
    LET s == str_lower(command_text)
    IN  IF ContainsAny(s, <<"task", "todo", "remind">>) THEN TaskHelp
        ELSE IF ContainsAny(s, <<"file", "document", "open", "read">>) THEN FileHelp
        ELSE IF ContainsAny(s, <<"browser", "web", "search", "google">>) THEN WebHelp
        ELSE GenericHelp

\* the try block of process_voice_command, given the outcome of parse_command:
\* the value returned, or the exception that leaves the block
process_voice_command_try(db, command_text, command, task_id, at) ==
    IF Raised(command)
    THEN [db |-> db, raised |-> command.raised]
    ELSE IF command.action = "unknown"
    THEN [db |-> db, response |-> handle_unknown_command(command_text)]
    ELSE IF command.entity = "task"
    THEN process_task_command(db, command, task_id, at)
    ELSE [db |-> db,
          response |-> "I understand you want to " \o command.action \o " " \o command.entity
                       \o ", but that feature isn't fully implemented yet."]

Apology == "Sorry, I encountered an error processing your request: "

\* the entry point without its except clause
process_voice_command_uncaught(db, command_text, command, task_id, at) ==
    process_voice_command_try(db, command_text, command, task_id, at)

\* ClaraTaskProcessor.process_voice_command: the try block, and the except clause
\* that turns any exception leaving it into the apology
process_voice_command(db, command_text, command, task_id, at) ==
    LET r == process_voice_command_try(db, command_text, command, task_id, at)
    IN  IF Raised(r) THEN [db |-> r.db, response |-> Apology \o r.raised] ELSE r

-----------------------------------------------------------------------------
(* Spec: one ClaraTaskProcessor, its entry points called in any order *)

\* the command texts passed to process_voice_command
VoiceInputs ==
    { "", "hello there", "create a task to Buy Milk", "create a task to",
      "show my tasks", None }

\* parse_command over the command texts, evaluated once
Parsed == [t \in VoiceInputs |-> parse_command(t)]

\* the VoiceCommand objects passed to _process_task_command
Commands ==
    { [ action     |-> op,
        entity     |-> "task",
        parameters |-> [operation |-> op, description |-> d, priority |-> "low"],
        confidence |-> 1,
        raw_text   |-> d ] :
      op \in {"create", "complete", "list", "delete", "update", "archive"},
      d \in {"", "milk"} }

Init ==
    /\ text = ""
    /\ cmd = NoCommand
    /\ response = ""
    /\ tasks_db = << >>
    /\ uuid_next = 0
    /\ now = 0
    /\ pc = "init"
    /\ loop = NoLoop

\* the effect of a call that returned result r, or that raised to its caller
Returns(r, name, argument, command) ==
    /\ Len(r.db) <= MaxTasks
    /\ Len(r.db) > Len(tasks_db) => uuid_next < MaxIds
    /\ tasks_db' = r.db
    /\ uuid_next' = IF Len(r.db) > Len(tasks_db) THEN uuid_next + 1 ELSE uuid_next
    /\ response' = IF Raised(r) THEN response ELSE r.response
    /\ text' = argument
    /\ cmd' = command
    /\ pc' = IF Raised(r) THEN name \o " raised" ELSE name
    /\ UNCHANGED <<now, loop>>

ProcessVoiceCommand(command_text) ==
    LET command == Parsed[command_text]
    IN  Returns(process_voice_command(tasks_db, command_text, command, Uuid(uuid_next + 1), now),
                "process_voice_command", command_text, command)

ProcessTaskCommand(command) ==
    Returns(process_task_command(tasks_db, command, Uuid(uuid_next + 1), now),
            "process_task_command", command.raw_text, command)

\* wall-clock time passes between calls
Tick ==
    /\ now < MaxClock
    /\ now' = now + 1
    /\ UNCHANGED <<text, cmd, response, tasks_db, uuid_next, pc, loop>>

Next ==
    \/ \E t \in VoiceInputs : ProcessVoiceCommand(t)
    \/ \E c \in Commands : ProcessTaskCommand(c)
    \/ Tick

Spec == Init /\ [][Next]_vars

-----------------------------------------------------------------------------
(* SpecStore: one TaskManager, its methods called directly in any order *)

\* the descriptions passed to create_task; the second one contains the id that
\* uuid4 gives the second task of a store
Descriptions == {"Buy Milk", "milk u2"}

Priorities == {"high", "low"}

\* the identifiers passed to complete_task and delete_task: a part of both
\* descriptions in another case, an id that is also part of a description, and
\* a word of no description
Identifiers == {"MILK", "u2", "report"}

StatusFilters == {None, "", "pending", "completed"}

CreateTask(description, priority) ==
    Returns(create_task(tasks_db, description, priority, None, Uuid(uuid_next + 1), now),
            "create_task", description, NoCommand)

CompleteTask(task_identifier) ==
    Returns(complete_task(tasks_db, task_identifier, now),
            "complete_task", task_identifier, NoCommand)

DeleteTask(task_identifier) ==
    Returns(delete_task(tasks_db, task_identifier),
            "delete_task", task_identifier, NoCommand)

ListTasks(status_filter) ==
    Returns(list_tasks(tasks_db, status_filter),
            "list_tasks", status_filter, NoCommand)

NextStore ==
    \/ \E d \in Descriptions, p \in Priorities : CreateTask(d, p)
    \/ \E i \in Identifiers : CompleteTask(i)
    \/ \E i \in Identifiers : DeleteTask(i)
    \/ \E f \in StatusFilters : ListTasks(f)
    \/ Tick

SpecStore == Init /\ [][NextStore]_vars

-----------------------------------------------------------------------------
(* SpecList: list_tasks applied to a store of pending tasks *)

ListedPriorities == {"high", "medium", "low"}

\* the description of the i-th task created: "A", "B", "C", ...
Name(i) == CharAt("ABCDEFGH", i)

\* the stores of n tasks left by n create_task calls. datetime.now() reads the
\* local wall clock, which can be set back between two calls, so the creation
\* times need not follow insertion order.
StoresOf(n) ==
    { [i \in 1..n |-> NewTask(Uuid(i), Name(i), f[i][1], None, f[i][2])] :
      f \in [1..n -> ListedPriorities \X (0..MaxStamp)] }

Stores == UNION { StoresOf(n) : n \in 0..MaxListed }

InitList ==
    /\ tasks_db \in Stores
    /\ text = ""
    /\ cmd = NoCommand
    /\ response = ""
    /\ uuid_next = Len(tasks_db)
    /\ now = MaxStamp
    /\ pc = "stored"
    /\ loop = NoLoop

\* list_tasks() on the store drawn
ListStored ==
    /\ pc = "stored"
    /\ LET r == list_tasks(tasks_db, None)
       IN  /\ tasks_db' = r.db
           /\ response' = r.response
    /\ text' = None
    /\ pc' = "list_tasks"
    /\ UNCHANGED <<cmd, uuid_next, now, loop>>

NextList == ListStored

SpecList == InitList /\ [][NextList]_vars

-----------------------------------------------------------------------------
(* SpecRoundTrip: create, complete, list, delete, list, complete of one description *)

\* the description of the round trip
RoundTripDescriptions == {"Buy Milk", "milk u2", "report"}

\* the tasks that other calls left in the store before the round trip
OtherTasks(task_id) ==
    { NewTask(task_id, d, p, None, 0) : d \in Descriptions, p \in Priorities }
    \cup { Completed(NewTask(task_id, d, p, None, 0), 0) : d \in Descriptions, p \in Priorities }

OtherStoresOf(n) ==
    { db \in [1..n -> UNION { OtherTasks(Uuid(i)) : i \in 1..n }] :
         \A i \in 1..n : db[i].id = Uuid(i) }

\* room is left for the task of the round trip
OtherStores == UNION { OtherStoresOf(n) : n \in 0..(MaxTasks - 1) }

\* text holds desc during the whole round trip; no task of the store matches it
InitRoundTrip ==
    /\ tasks_db \in OtherStores
    /\ text \in RoundTripDescriptions
    /\ find_task(tasks_db, text) = 0
    /\ cmd = NoCommand
    /\ response = ""
    /\ uuid_next = Len(tasks_db)
    /\ now \in 0..MaxClock
    /\ pc = "trip"
    /\ loop = NoLoop

\* a call of the round trip returned r
TripReturns(r, from, to) ==
    /\ pc = from
    /\ tasks_db' = r.db
    /\ uuid_next' = IF Len(r.db) > Len(tasks_db) THEN uuid_next + 1 ELSE uuid_next
    /\ response' = r.response
    /\ pc' = to
    /\ UNCHANGED <<text, cmd, now, loop>>

TripCreate(priority) ==
    TripReturns(create_task(tasks_db, text, priority, None, Uuid(uuid_next + 1), now),
                "trip", "trip created")

TripComplete ==
    TripReturns(complete_task(tasks_db, text, now), "trip created", "trip completed")

TripList ==
    TripReturns(list_tasks(tasks_db, None), "trip completed", "trip listed")

TripDelete ==
    TripReturns(delete_task(tasks_db, text), "trip listed", "trip deleted")

TripListAgain ==
    TripReturns(list_tasks(tasks_db, None), "trip deleted", "trip listed again")

TripCompleteAgain ==
    TripReturns(complete_task(tasks_db, text, now), "trip listed again", "trip completed again")

NextRoundTrip ==
    \/ \E p \in Priorities : TripCreate(p)
    \/ TripComplete
    \/ TripList
    \/ TripDelete
    \/ TripListAgain
    \/ TripCompleteAgain

SpecRoundTrip == InitRoundTrip /\ [][NextRoundTrip]_vars

-----------------------------------------------------------------------------
(* SpecLoop: dispatches scheduled concurrently on one event loop, each run as
   the sequence of its statements.  A coroutine keeps the loop until it reaches
   a suspension point or returns; awaiting a coroutine is not a suspension. *)

Calls == 1..MaxCalls

\* the dispatches scheduled: create, complete and delete of the same description
LoopCommands ==
    { c \in Commands : /\ c.parameters.operation \in {"create", "complete", "delete"}
                       /\ c.parameters.description # "" }

IdleFrame == [at |-> "idle", command |-> NoCommand, task |-> None]

\* the places between lookup and mutation, and between the two assignments of
\* complete_task, at which the coroutine would give the loop to another one
\* if an await that suspends stood there
SuspensionPointsAfterLookup == {"looked up"}

\* the places in create_task, complete_task and delete_task at which the
\* coroutine suspends: they await nothing
SuspensionPoints == {}

InitLoop ==
    /\ text = ""
    /\ cmd = NoCommand
    /\ response = ""
    /\ tasks_db = << >>
    /\ uuid_next = 0
    /\ now = 0
    /\ pc = "init"
    /\ loop = [running |-> 0, frames |-> [c \in Calls |-> IdleFrame]]

\* the loop after call c moved to place `at`: c keeps the loop unless the place
\* is a suspension point
Moved(c, at, task) ==
    [ running |-> IF at \in SuspensionPoints THEN 0 ELSE c,
      frames  |-> [loop.frames EXCEPT ![c] = [@ EXCEPT !.at = at, !.task = task]] ]

\* the loop after call c returned
Left(c) == [running |-> 0, frames |-> [loop.frames EXCEPT ![c] = IdleFrame]]

\* call c is at place `at` and is the one to run: it holds the loop, or the
\* loop is free and c is suspended there
Runs(c, at) ==
    /\ loop.frames[c].at = at
    /\ \/ loop.running = c
       \/ loop.running = 0 /\ at \in SuspensionPoints

\* the caller schedules _process_task_command(command) on the loop
Schedule(c, command) ==
    /\ loop.frames[c].at = "idle"
    /\ loop' = [loop EXCEPT !.frames[c] = [at |-> "scheduled", command |-> command, task |-> None]]
    /\ UNCHANGED <<text, cmd, response, tasks_db, uuid_next, now, pc>>

\* the loop starts call c: the gate and the dispatch, then the whole of
\* create_task, or the lookup of complete_task and delete_task; on a miss the
\* call returns at once
Dispatch(c) ==
    LET command == loop.frames[c].command
        hit     == find_task(tasks_db, command.parameters.description)
        r       == process_task_command(tasks_db, command, Uuid(uuid_next + 1), now)
    IN  /\ loop.running = 0
        /\ loop.frames[c].at = "scheduled"
        /\ IF command.parameters.operation = "create" \/ hit = 0
           THEN /\ Len(r.db) <= MaxTasks
                /\ Len(r.db) > Len(tasks_db) => uuid_next < MaxIds
                /\ tasks_db' = r.db
                /\ uuid_next' = IF Len(r.db) > Len(tasks_db) THEN uuid_next + 1 ELSE uuid_next
                /\ response' = r.response
                /\ text' = command.raw_text
                /\ cmd' = command
                /\ pc' = "process_task_command"
                /\ loop' = Left(c)
           ELSE /\ loop' = Moved(c, "looked up", tasks_db[hit])
                /\ UNCHANGED <<text, cmd, response, tasks_db, uuid_next, pc>>
        /\ UNCHANGED now

\* the store after the assignment to that key of the task dict of that id; the
\* dict of a task that was deleted is no part of the store
Assigned(db, task_id, key, at) ==
    [i \in 1..Len(db) |->
        IF db[i].id # task_id THEN db[i]
        ELSE IF key = "status" THEN [db[i] EXCEPT !.status = "completed"]
        ELSE Completed(db[i], at)]

\* complete_task: task["status"] = "completed"
SetStatus(c) ==
    LET command == loop.frames[c].command
        task    == loop.frames[c].task
    IN  /\ Runs(c, "looked up")
        /\ command.parameters.operation = "complete"
        /\ tasks_db' = Assigned(tasks_db, task.id, "status", now)
        /\ loop' = Moved(c, "status set", task)
        /\ UNCHANGED <<text, cmd, response, uuid_next, now, pc>>

\* complete_task: task["completed_at"] = datetime.now(), and the return
SetCompletedAt(c) ==
    LET command == loop.frames[c].command
        task    == loop.frames[c].task
    IN  /\ Runs(c, "status set")
        /\ tasks_db' = Assigned(tasks_db, task.id, "completed_at", now)
        /\ response' = "Marked as completed: " \o task.description
        /\ text' = command.raw_text
        /\ cmd' = command
        /\ pc' = "process_task_command"
        /\ loop' = Left(c)
        /\ UNCHANGED <<uuid_next, now>>

\* delete_task: del self.tasks_db[task_id], which raises KeyError when the key
\* is gone, and the return
Delete(c) ==
    LET command == loop.frames[c].command
        task    == loop.frames[c].task
        present == \E i \in 1..Len(tasks_db) : tasks_db[i].id = task.id
    IN  /\ Runs(c, "looked up")
        /\ command.parameters.operation = "delete"
        /\ tasks_db' = DictDel(tasks_db, task.id)
        /\ response' = IF present THEN "Deleted task: " \o task.description ELSE response
        /\ text' = command.raw_text
        /\ cmd' = command
        /\ pc' = IF present THEN "process_task_command" ELSE "process_task_command raised"
        /\ loop' = Left(c)
        /\ UNCHANGED <<uuid_next, now>>

NextLoop ==
    \/ \E c \in Calls, command \in LoopCommands : Schedule(c, command)
    \/ \E c \in Calls : Dispatch(c)
    \/ \E c \in Calls : SetStatus(c)
    \/ \E c \in Calls : SetCompletedAt(c)
    \/ \E c \in Calls : Delete(c)

SpecLoop == InitLoop /\ [][NextLoop]_vars

-----------------------------------------------------------------------------
(* SpecSniff: one ClaraTaskProcessor that is sent, again and again, texts with
   and without the words _handle_unknown_command looks for, and texts in the
   words of the complete, list, delete and update patterns *)

SniffInputs ==
    { "", " ", None, "hello", "todo", "remind", "open file", "read document",
      "web search", "google it",
      "mark todo as done", "show my tasks", "delete todo", "update todo to ok" }

ParsedSniffInputs == [t \in SniffInputs |-> parse_command(t)]

SniffVoiceCommand(command_text) ==
    LET command == ParsedSniffInputs[command_text]
    IN  Returns(process_voice_command(tasks_db, command_text, command, Uuid(uuid_next + 1), now),
                "process_voice_command", command_text, command)

NextSniff == \E t \in SniffInputs : SniffVoiceCommand(t)

\* the caller goes on calling: a text that can be sent is sent sooner or later
SpecSniff ==
    /\ Init
    /\ [][NextSniff]_vars
    /\ \A t \in SniffInputs : WF_vars(SniffVoiceCommand(t))

-----------------------------------------------------------------------------
(* SpecStandalone: the module-level entry points, called in any order.  Each
   call constructs its own ClaraTaskProcessor; tasks_db is the store of the
   processor of the last call, as that call left it. *)

\* the entry point that keeps one processor for all its calls
process_voice_command_shared(previous, command_text, command, task_id, at) ==
    process_voice_command(previous, command_text, command, task_id, at)

\* process_voice_command_standalone: processor = ClaraTaskProcessor(), whose
\* TaskManager starts with tasks_db = {} whatever the processor of the previous
\* call held, then processor.process_voice_command(command)
process_voice_command_standalone(previous, command_text, command, task_id, at) ==
    process_voice_command(<< >>, command_text, command, task_id, at)

\* clara_voice_agent.process_voice_command: the same with a processor of its
\* own, inside a try whose except clause returns "Error: " and the detail
agent_process_voice_command(previous, command_text, command, task_id, at) ==
    LET r == process_voice_command(<< >>, command_text, command, task_id, at)
    IN  IF Raised(r) THEN [db |-> r.db, response |-> "Error: " \o r.raised] ELSE r

\* the effect of a standalone call that returned r; uuid4 was drawn when the
\* store of the new processor holds a task
StandaloneReturns(r, name, command_text) ==
    /\ r.db # << >> => uuid_next < MaxIds
    /\ tasks_db' = r.db
    /\ uuid_next' = IF r.db # << >> THEN uuid_next + 1 ELSE uuid_next
    /\ response' = r.response
    /\ text' = command_text
    /\ cmd' = ParsedSniffInputs[command_text]
    /\ pc' = name
    /\ UNCHANGED <<now, loop>>

StandaloneCall(command_text) ==
    StandaloneReturns(process_voice_command_standalone(tasks_db, command_text,
                          ParsedSniffInputs[command_text], Uuid(uuid_next + 1), now),
                      "process_voice_command_standalone", command_text)

AgentCall(command_text) ==
    StandaloneReturns(agent_process_voice_command(tasks_db, command_text,
                          ParsedSniffInputs[command_text], Uuid(uuid_next + 1), now),
                      "clara_voice_agent.process_voice_command", command_text)

NextStandalone ==
    \/ \E t \in SniffInputs : StandaloneCall(t)
    \/ \E t \in SniffInputs : AgentCall(t)
    \/ Tick

SpecStandalone == Init /\ [][NextStandalone]_vars

-----------------------------------------------------------------------------
(* Properties of parse_command, checked under SpecParse *)

AfterParse == pc = "parsed"

Norm == Normalize(text)

Matches(pattern, s) == re_search(pattern, s).found

\* the documented order of the pattern table
TableOrder ==
    << <<"create", CreatePatterns[1]>>, <<"create", CreatePatterns[2]>>,
       <<"create", CreatePatterns[3]>>, <<"create", CreatePatterns[4]>>,
       <<"complete", CompletePatterns[1]>>, <<"complete", CompletePatterns[2]>>,
       <<"complete", CompletePatterns[3]>>,
       <<"list", ListPatterns[1]>>, <<"list", ListPatterns[2]>>, <<"list", ListPatterns[3]>>,
       <<"delete", DeletePatterns[1]>>, <<"delete", DeletePatterns[2]>>,
       <<"update", UpdatePatterns[1]>>, <<"update", UpdatePatterns[2]>> >>

\* the first entry of the documented order whose pattern matches s (0 for none)
RECURSIVE FirstMatching(_, _)
FirstMatching(s, k) ==
    IF k > Len(TableOrder) THEN 0
    ELSE IF Matches(TableOrder[k][2], s) THEN k
    ELSE FirstMatching(s, k + 1)

\* C1: the action of the returned command is the intent of the first pattern,
\* in the order create, complete, list, delete, update and list order within an
\* intent, that matches the normalized text.
C1_FirstMatchWins ==
    AfterParse =>
        LET k == FirstMatching(Norm, 1)
        IN  k # 0 => cmd.action = TableOrder[k][1]

\* a later intent's pattern matches too, and the earlier intent is returned
C1_Witness ==
    /\ AfterParse
    /\ cmd.action = "create"
    /\ Matches(CompletePatterns[2], Norm)
    /\ ~Matches(CreatePatterns[1], Norm)

\* C2: the action is 'unknown' exactly when no pattern matches; then the
\* entity is 'unknown' and parameters holds the raw text and nothing else.
C2_UnknownIffNoMatch ==
    AfterParse =>
        /\ cmd.action = "unknown" <=> \A k \in 1..Len(TableOrder) : ~Matches(TableOrder[k][2], Norm)
        /\ cmd.action = "unknown" =>
              /\ cmd.entity = "unknown"
              /\ DOMAIN cmd.parameters = {"raw_text"}
              /\ cmd.parameters.raw_text = cmd.raw_text

C2_Witness == AfterParse /\ cmd.action = "unknown" /\ text # ""

StartsWith(s, prefix) == Len(s) >= Len(prefix) /\ SubSeq(s, 1, Len(prefix)) = prefix

EndsWith(s, suffix) ==
    Len(s) >= Len(suffix) /\ SubSeq(s, Len(s) - Len(suffix) + 1, Len(s)) = suffix

\* C3: 'create a task to X' with non-empty X yields action 'create', entity
\* 'task' and a description that contains the trimmed, lower-cased X.
C3_CreateATaskTo ==
    LET prefix == "create a task to "
        X == SubSeq(text, Len(prefix) + 1, Len(text))
    IN  (AfterParse /\ StartsWith(text, prefix) /\ str_strip(X) # "") =>
            /\ cmd.action = "create"
            /\ cmd.entity = "task"
            /\ Contains(cmd.parameters.description, str_strip(str_lower(X)))

\* C4: 'mark X as done' yields action 'complete' with description X.
C4_MarkAsDone ==
    LET prefix == "mark "
        suffix == " as done"
        X == SubSeq(text, Len(prefix) + 1, Len(text) - Len(suffix))
    IN  (AfterParse /\ StartsWith(text, prefix) /\ EndsWith(text, suffix) /\ str_strip(X) # "") =>
            /\ cmd.action = "complete"
            /\ cmd.parameters.description = str_strip(X)

\* the first time pattern, in list order, that matches s (0 for none)
FirstTimePattern(s) ==
    LET hits == {k \in 1..Len(time_patterns) : Matches(time_patterns[k], s)}
    IN  IF hits = {} THEN 0 ELSE CHOOSE k \in hits : \A j \in hits : k <= j

\* C6: time_reference is the full matched text of the first matching time
\* pattern; a later matching pattern does not replace it.
C6_FirstTimeReference ==
    (AfterParse /\ cmd.action # "unknown" /\ FirstTimePattern(Norm) # 0) =>
        /\ "time_reference" \in DOMAIN cmd.parameters
        /\ cmd.parameters.time_reference
              = re_search(time_patterns[FirstTimePattern(Norm)], Norm).group0

\* C7: the priority of a matched utterance is 'high' when the text contains a
\* high-urgency word, else 'low' when it contains a low-urgency word, else
\* 'medium'.
C7_Priority ==
    (AfterParse /\ cmd.action # "unknown") =>
        /\ "priority" \in DOMAIN cmd.parameters
        /\ cmd.parameters.priority =
              IF \/ Contains(Norm, "urgent") \/ Contains(Norm, "asap")
                 \/ Contains(Norm, "immediately") \/ Contains(Norm, "high priority")
              THEN "high"
              ELSE IF \/ Contains(Norm, "low") \/ Contains(Norm, "whenever")
                      \/ Contains(Norm, "someday")
              THEN "low"
              ELSE "medium"

\* both vocabularies present: resolved to 'high'
C7_Witness ==
    /\ AfterParse
    /\ Contains(Norm, "urgent")
    /\ Contains(Norm, "someday")
    /\ cmd.parameters.priority = "high"

\* C8: the context of a matched utterance is 'work' when the text contains
\* 'work' or 'job', else 'personal' when it contains 'personal', else the key
\* is absent.
C8_Context ==
    (AfterParse /\ cmd.action # "unknown") =>
        IF Contains(Norm, "work") \/ Contains(Norm, "job")
        THEN "context" \in DOMAIN cmd.parameters /\ cmd.parameters.context = "work"
        ELSE IF Contains(Norm, "personal")
        THEN "context" \in DOMAIN cmd.parameters /\ cmd.parameters.context = "personal"
        ELSE "context" \notin DOMAIN cmd.parameters

\* both 'work' and 'personal' present: resolved to 'work'
C8_Witness ==
    /\ AfterParse
    /\ Contains(Norm, "personal")
    /\ Contains(Norm, "work")
    /\ cmd.parameters.context = "work"

-----------------------------------------------------------------------------
(* Properties of ClaraTaskProcessor, checked under Spec *)

\* some pattern that names a task keyword matches s: any pattern of the table
\* but the third create pattern, whose only mandatory part is (.+)
HasTaskVocabulary(s) ==
    \E k \in 1..Len(TableOrder) : k # 3 /\ Matches(TableOrder[k][2], s)

FallbackStrings == {TaskHelp, FileHelp, WebHelp, GenericHelp}

\* C5: an utterance with no recognizable task vocabulary is classified
\* 'unknown' and answered with one of the four canned guidance strings.
C5_NoVocabularyIsUnknown ==
    (pc = "process_voice_command" /\ text # None /\ ~HasTaskVocabulary(Normalize(text))) =>
        /\ cmd.action = "unknown"
        /\ response \in FallbackStrings

GatedOperations == {"create", "complete", "delete", "update"}

EmptyDescriptionDispatch(command) ==
    /\ command.action # "unknown"
    /\ Get(command.parameters, "description", "") = ""
    /\ Get(command.parameters, "operation", None) \in GatedOperations

\* C9: dispatching a recognized command with an empty description and
\* operation create, complete, delete or update returns the clarification
\* string and leaves the task store as it was.
C9_EmptyDescriptionGate ==
    [][ (pc' = "process_task_command" /\ EmptyDescriptionDispatch(cmd')) =>
            (response' = NeedDetails /\ tasks_db' = tasks_db /\ uuid_next' = uuid_next) ]_vars

\* the gate answered a create with no description while the store held a task
C9_Witness ==
    /\ pc = "process_task_command"
    /\ EmptyDescriptionDispatch(cmd)
    /\ cmd.parameters.operation = "create"
    /\ response = NeedDetails
    /\ tasks_db # << >>

\* C10: a 'list' command with an empty description is not stopped by the
\* empty-description gate: it returns the listing or 'No tasks found.'.
C10_ListExemptFromGate ==
    ( /\ pc = "process_task_command"
      /\ cmd.parameters.operation = "list"
      /\ cmd.parameters.description = "" ) =>
        /\ response # NeedDetails
        /\ response = list_tasks(tasks_db, None).response

\* C11: after process_voice_command("create a task to") the parsed command is a
\* create with an empty description, the response is the clarification string and
\* the store holds no task that this call added
C11_BareCreateATaskTo ==
    (pc = "process_voice_command" /\ text = "create a task to")
        => /\ cmd.action = "create"
           /\ Get(cmd.parameters, "description", "") = ""
           /\ response = NeedDetails

-----------------------------------------------------------------------------
(* The task store *)

\* a call of a TaskManager method (or of an entry point) has just returned `name`
Returned(name) == pc = name

\* the step is a call that returns `name`, and not the passing of time
Call(name) == pc' = name /\ now' = now

HasCompletedAt(task) == "completed_at" \in DOMAIN task

\* C12: in every state of the store reached by create_task, complete_task,
\* delete_task and list_tasks calls, a task has completed_at set if and only if
\* its status is "completed"
C12_CompletedAtIffCompleted ==
    \A i \in 1..Len(tasks_db) :
        HasCompletedAt(tasks_db[i]) <=> tasks_db[i].status = "completed"

\* a store with a completed and a pending task, after other calls followed the completion
C12_Witness ==
    /\ Returned("list_tasks")
    /\ \E i, j \in 1..Len(tasks_db) :
          /\ tasks_db[i].status = "completed" /\ HasCompletedAt(tasks_db[i])
          /\ tasks_db[j].status = "pending" /\ ~HasCompletedAt(tasks_db[j])

\* the order the listing is claimed to have: high before medium before low
Rank(priority) == CASE priority = "high" -> 0 [] priority = "medium" -> 1 [] priority = "low" -> 2

InListingOrder(a, b) ==
    \/ Rank(a.priority) < Rank(b.priority)
    \/ Rank(a.priority) = Rank(b.priority) /\ a.created_at <= b.created_at

\* the text of a listing that shows the tasks of db in the order of permutation f
RECURSIVE LinesInOrder(_, _, _)
LinesInOrder(db, f, i) ==
    IF i > Len(db) THEN ""
    ELSE (IF i = 1 THEN "" ELSE "\n")
         \o (IF db[f[i]].status = "completed" THEN DoneIcon ELSE PendingIcon)
         \o " " \o db[f[i]].description \o " (" \o db[f[i]].priority \o " priority)"
         \o LinesInOrder(db, f, i + 1)

\* C13: list_tasks on a non-empty store returns every task once, ordered by
\* priority (high, medium, low) and within one priority by ascending creation
\* time, whatever the insertion order
C13_ListedByPriorityThenCreation ==
    (Returned("list_tasks") /\ tasks_db # << >>)
        => \E f \in Permutations(1..Len(tasks_db)) :
              /\ \A i, j \in 1..Len(tasks_db) :
                    i < j => InListingOrder(tasks_db[f[i]], tasks_db[f[j]])
              /\ response = "You have " \o IntToStr(Len(tasks_db)) \o " tasks:\n"
                            \o LinesInOrder(tasks_db, f, 1)

\* the store A(high, 1), B(low, 2), C(high, 0) in insertion order A, B, C is listed C, A, B
C13_Witness ==
    /\ Returned("list_tasks")
    /\ Len(tasks_db) = 3
    /\ tasks_db[1].description = "A" /\ tasks_db[1].priority = "high" /\ tasks_db[1].created_at = 1
    /\ tasks_db[2].description = "B" /\ tasks_db[2].priority = "low" /\ tasks_db[2].created_at = 2
    /\ tasks_db[3].description = "C" /\ tasks_db[3].priority = "high" /\ tasks_db[3].created_at = 0
    /\ response = "You have 3 tasks:\n[ ] C (high priority)\n[ ] A (high priority)\n[ ] B (low priority)"

\* the tasks a listing with the given filter argument is about: all of them when
\* no filter is given (None, or the empty string), else those of that status
Kept(db, status_filter) ==
    {i \in 1..Len(db) : status_filter \in {None, ""} \/ db[i].status = status_filter}

\* C14: list_tasks on an empty store, or with a status filter that no task of the
\* store passes, returns exactly "No tasks found."
C14_NoTasksFound ==
    (Returned("list_tasks") /\ Kept(tasks_db, text) = {}) => response = "No tasks found."

\* a store of pending tasks only, listed with the filter "completed"
C14_Witness ==
    /\ Returned("list_tasks")
    /\ text = "completed"
    /\ tasks_db # << >>
    /\ \A i \in 1..Len(tasks_db) : tasks_db[i].status = "pending"
    /\ response = "No tasks found."

\* the listing has a line for a task of the given description
Shows(listing, icon, description) == Contains(listing, icon \o " " \o description \o " (")

\* C15: from a store with no task matching desc, after create(desc, prio) and
\* complete(desc) the listing shows the task as completed; after delete(desc) the
\* listing has no line for it; a further complete(desc) returns "Task not found"
\* and changes nothing in the store
C15_RoundTrip ==
    /\ [](/\ Returned("trip listed") =>
               /\ Shows(response, DoneIcon, text)
               /\ ~Shows(response, PendingIcon, text)
          /\ Returned("trip listed again") =>
               /\ ~Shows(response, DoneIcon, text)
               /\ ~Shows(response, PendingIcon, text)
          /\ Returned("trip completed again") => response = "Task not found: " \o text)
    /\ [][pc' = "trip completed again" => tasks_db' = tasks_db]_vars

\* the end of a round trip in a store that holds another task
C15_Witness ==
    /\ Returned("trip completed again")
    /\ response = "Task not found: " \o text
    /\ tasks_db # << >>

\* the two conditions of the lookup policy, for the task at index i of db
IdMatch(db, i, identifier) == db[i].id = identifier

DescriptionMatch(db, i, identifier) ==
    Contains(str_lower(db[i].description), str_lower(identifier))

\* the index of the task the lookup policy names, 0 when it names none
Lookup(db, identifier) ==
    IF \E i \in 1..Len(db) : IdMatch(db, i, identifier)
    THEN CHOOSE i \in 1..Len(db) : IdMatch(db, i, identifier)
    ELSE IF \E i \in 1..Len(db) : DescriptionMatch(db, i, identifier)
    THEN CHOOSE i \in 1..Len(db) :
            /\ DescriptionMatch(db, i, identifier)
            /\ \A j \in 1..(i - 1) : ~DescriptionMatch(db, j, identifier)
    ELSE 0

Ids(db) == {db[i].id : i \in 1..Len(db)}

\* C16: the task that complete_task and delete_task act on is the task whose id
\* equals the identifier if there is one, else the first task in insertion order
\* whose description contains the identifier regardless of case; the call
\* reports "Task not found" exactly when no task meets either condition
C16_LookupPolicy ==
    [][ (Call("complete_task") \/ Call("delete_task")) =>
           LET e == Lookup(tasks_db, text')
           IN  IF e = 0
               THEN response' = "Task not found: " \o text'
               ELSE /\ Call("complete_task") =>
                          /\ response' = "Marked as completed: " \o tasks_db[e].description
                          /\ tasks_db'[e].id = tasks_db[e].id
                          /\ tasks_db'[e].status = "completed"
                    /\ Call("delete_task") =>
                          /\ response' = "Deleted task: " \o tasks_db[e].description
                          /\ Ids(tasks_db') = Ids(tasks_db) \ {tasks_db[e].id} ]_vars

\* complete_task("u2") completed the task of id u2 although the description of
\* an earlier task contains "u2"
C16_Witness ==
    /\ Returned("complete_task")
    /\ text = "u2"
    /\ Len(tasks_db) = 2
    /\ DescriptionMatch(tasks_db, 1, "u2") /\ tasks_db[1].status = "pending"
    /\ IdMatch(tasks_db, 2, "u2") /\ tasks_db[2].status = "completed"
    /\ ~DescriptionMatch(tasks_db, 2, "u2")

-----------------------------------------------------------------------------
(* The entry point *)

\* C17: no call of process_voice_command raises to its caller; when parsing or
\* the dispatch raised, the call returns the apology followed by the error detail
C17_NeverRaises ==
    /\ pc # "process_voice_command raised"
    /\ (Returned("process_voice_command") /\ Raised(cmd)) => response = Apology \o cmd.raised

\* process_voice_command(None): parse_command raised and the apology was
\* returned, in a store that earlier calls filled
C17_Witness ==
    /\ Returned("process_voice_command")
    /\ text = None
    /\ response = "Sorry, I encountered an error processing your request: 'NoneType' object has no attribute 'lower'"
    /\ tasks_db # << >>

\* the command is dispatched to create_task: a task command of operation create
\* with a non-empty description
CreateDispatch(command) ==
    /\ ~Raised(command)
    /\ command.action # "unknown"
    /\ command.entity = "task"
    /\ Get(command.parameters, "operation", None) = "create"
    /\ Get(command.parameters, "description", "") # ""

\* C18: a create dispatch with a non-empty description adds exactly one task,
\* with an id that no existing task has, the description given, the priority of
\* the command parameters and status "pending", leaves the existing tasks as
\* they were and returns "Task created: <description>"
C18_CreateDispatch ==
    [][ ((Call("process_task_command") \/ Call("process_voice_command")) /\ CreateDispatch(cmd')) =>
           LET n == Len(tasks_db)
               new == tasks_db'[n + 1]
           IN  /\ Len(tasks_db') = n + 1
               /\ \A i \in 1..n : tasks_db'[i] = tasks_db[i]
               /\ new.id \notin Ids(tasks_db)
               /\ new.description = cmd'.parameters.description
               /\ new.priority = Get(cmd'.parameters, "priority", "medium")
               /\ new.status = "pending"
               /\ response' = "Task created: " \o cmd'.parameters.description ]_vars

\* a create dispatch into a store that already held a task
C18_Witness ==
    /\ Returned("process_task_command")
    /\ CreateDispatch(cmd)
    /\ Len(tasks_db) = 2
    /\ tasks_db[1].id # tasks_db[2].id
    /\ tasks_db[2].description = "milk" /\ tasks_db[2].priority = "low"
    /\ tasks_db[2].status = "pending"
    /\ response = "Task created: milk"

\* C19: when no task has the identifier as id or within its description,
\* complete_task and delete_task return "Task not found: <identifier>" and the
\* store after the call equals the store before it
C19_LookupMiss ==
    [][ ((Call("complete_task") \/ Call("delete_task")) /\ Lookup(tasks_db, text') = 0) =>
           /\ response' = "Task not found: " \o text'
           /\ tasks_db' = tasks_db
           /\ uuid_next' = uuid_next ]_vars

\* delete_task("report") on a store of two tasks, none of which matches
C19_Witness ==
    /\ Returned("delete_task")
    /\ text = "report"
    /\ Len(tasks_db) = 2
    /\ Lookup(tasks_db, "report") = 0
    /\ response = "Task not found: report"

\* the store db without its task at index e
Without(db, e) == [i \in 1..(Len(db) - 1) |-> IF i < e THEN db[i] ELSE db[i + 1]]

\* C20: a delete_task call whose lookup hits removes the task the lookup policy
\* names and no other, and leaves the other tasks as they were; a complete_task
\* call whose lookup hits changes nothing but status and completed_at of that task
C20_HitFrame ==
    [][ LET e == Lookup(tasks_db, text')
        IN  /\ (Call("delete_task") /\ e # 0) => tasks_db' = Without(tasks_db, e)
            /\ (Call("complete_task") /\ e # 0) =>
                  /\ Len(tasks_db') = Len(tasks_db)
                  /\ \A i \in 1..Len(tasks_db) : i # e => tasks_db'[i] = tasks_db[i]
                  /\ DOMAIN tasks_db'[e] = DOMAIN tasks_db[e] \cup {"completed_at"}
                  /\ \A k \in DOMAIN tasks_db[e] \ {"status", "completed_at"} :
                        tasks_db'[e][k] = tasks_db[e][k] ]_vars

\* delete_task("MILK") removed the first of two tasks that both match, and the
\* second, a completed one, is what the store holds
C20_Witness ==
    /\ Returned("delete_task")
    /\ text = "MILK"
    /\ uuid_next = 2
    /\ Len(tasks_db) = 1
    /\ tasks_db[1].id = "u2" /\ tasks_db[1].status = "completed"
    /\ DescriptionMatch(tasks_db, 1, "MILK")

\* C21: a list_tasks call, with or without a status filter, leaves the store as
\* it was: the same tasks, with the same fields, in the same iteration order
C21_ListLeavesStore ==
    [][ Call("list_tasks") => (tasks_db' = tasks_db /\ uuid_next' = uuid_next) ]_vars

\* a filtered listing of a store whose insertion order is not the listing order:
\* the low task was inserted first and is still first in the store
C21_Witness ==
    /\ Returned("list_tasks")
    /\ text = "pending"
    /\ Len(tasks_db) = 2
    /\ tasks_db[1].priority = "low" /\ tasks_db[1].status = "pending"
    /\ tasks_db[2].priority = "high" /\ tasks_db[2].status = "pending"
    /\ response = "You have 2 tasks:\n" \o TaskLine(tasks_db[2]) \o "\n" \o TaskLine(tasks_db[1])

-----------------------------------------------------------------------------
(* The dispatch *)

OperationOf(command) == Get(command.parameters, "operation", None)

DescriptionOf(command) == Get(command.parameters, "description", "")

KnownOperations == {"create", "complete", "list", "delete", "update"}

StoreUntouched == tasks_db' = tasks_db /\ uuid_next' = uuid_next

\* a dispatch with a non-empty description and an operation outside the five
\* known ones touches no task and returns "Unknown task operation: <op>"
UnknownOperationStep ==
    (/\ Call("process_task_command")
     /\ DescriptionOf(cmd') # ""
     /\ OperationOf(cmd') \notin KnownOperations)
        => /\ StoreUntouched
           /\ response' = "Unknown task operation: " \o OperationOf(cmd')

\* C22 as stated: every update dispatch, whatever its description, touches no
\* task and returns the 'not implemented' message; and every dispatch of an
\* unknown operation with a non-empty description returns "Unknown task operation: <op>"
C22_UpdateAnyDescription ==
    [][ /\ (Call("process_task_command") /\ OperationOf(cmd') = "update")
              => (StoreUntouched /\ response' = UpdateNotImplemented)
        /\ UnknownOperationStep ]_vars

\* C22, amended: an update dispatch with a non-empty description touches no task
\* and returns the 'not implemented' message, an update dispatch with an empty
\* description touches no task either and returns the clarification string;
\* every dispatch of an unknown operation with a non-empty description touches
\* no task and returns "Unknown task operation: <op>"
C22_UpdateAndUnknownOperation ==
    [][ /\ (Call("process_task_command") /\ OperationOf(cmd') = "update")
              => /\ StoreUntouched
                 /\ response' = IF DescriptionOf(cmd') = "" THEN NeedDetails
                                ELSE UpdateNotImplemented
        /\ UnknownOperationStep ]_vars

\* an update dispatch with a description, on a store that holds a task
C22_Witness ==
    /\ Returned("process_task_command")
    /\ OperationOf(cmd) = "update"
    /\ DescriptionOf(cmd) = "milk"
    /\ response = UpdateNotImplemented
    /\ tasks_db # << >>

-----------------------------------------------------------------------------
(* The parser, continued *)

\* C23: the raw_text of the command that parse_command returns is the utterance
\* exactly as it was passed in, with its case and its surrounding white space
C23_RawTextIsOriginal ==
    AfterParse => cmd.raw_text = text

-----------------------------------------------------------------------------
(* The guidance for unknown input *)

\* the guidance the fixed order of vocabularies selects for a text
Sniffed(s) ==
    IF \E w \in {"task", "todo", "remind"} : Contains(str_lower(s), w) THEN TaskHelp
    ELSE IF \E w \in {"file", "document", "open", "read"} : Contains(str_lower(s), w) THEN FileHelp
    ELSE IF \E w \in {"browser", "web", "search", "google"} : Contains(str_lower(s), w) THEN WebHelp
    ELSE GenericHelp

ClassifiedUnknown == Returned("process_voice_command") /\ ~Raised(cmd) /\ cmd.action = "unknown"

\* C24: for input classified as unknown process_voice_command returns the
\* guidance string that the first matching vocabulary (task, file, browser, else
\* the generic one) selects, and each of the four guidance strings is returned
\* to a caller that keeps sending texts
C24_FourGuidanceStrings ==
    /\ [](ClassifiedUnknown => response = Sniffed(text))
    /\ \A h \in FallbackStrings : <>(ClassifiedUnknown /\ response = h)

CapturedDescription(s) ==
    LET pattern == TableOrder[FirstMatching(s, 1)][2]
    IN  IF NGroups(pattern, 1) = 0 THEN ""
        ELSE str_strip(re_search(pattern, s).group1)

ExtractedKeys == {"time_reference", "priority", "context"}

\* C26: on every match parse_command returns entity "task" and parameters that
\* hold operation (the action), description (the trimmed first captured group of
\* the winning pattern, empty when it has none) and priority; the other keys are
\* the extracted ones, and none of them replaces operation or description
C26_MatchedParameters ==
    (AfterParse /\ cmd.action # "unknown")
        => /\ cmd.entity = "task"
           /\ {"operation", "description", "priority"} \subseteq DOMAIN cmd.parameters
           /\ DOMAIN cmd.parameters \subseteq {"operation", "description"} \cup ExtractedKeys
           /\ cmd.parameters.operation = cmd.action
           /\ cmd.parameters.description = CapturedDescription(Norm)
           /\ cmd.parameters.priority \in {"high", "medium", "low"}

\* a match whose parameters carry all three extracted keys next to a
\* description that is only a part of the text
C26_Witness ==
    /\ AfterParse
    /\ text = "I need to finish work by friday"
    /\ cmd.parameters.operation = "create"
    /\ cmd.parameters.description = "finish work by friday"
    /\ DOMAIN cmd.parameters = {"operation", "description"} \cup ExtractedKeys

IsListing(r) == r = "No tasks found." \/ StartsWith(r, "You have ")

-----------------------------------------------------------------------------
(* Concurrent dispatches *)

\* call c has looked a task up and has not returned yet
HoldsTask(c) == loop.frames[c].at \in {"looked up", "status set"}

\* C28: in every interleaving of dispatches scheduled on one event loop, a call
\* that has looked a task up finds it in the store until it returns (no other
\* call deleted it in between), no call raises, and whenever the loop is free
\* to run another call the store has one task per id and completed_at set
\* exactly on the completed tasks
C28_AtomicDispatches ==
    /\ \A c \in Calls : HoldsTask(c) => loop.frames[c].task.id \in Ids(tasks_db)
    /\ pc # "process_task_command raised"
    /\ loop.running = 0 =>
          /\ \A i, j \in 1..Len(tasks_db) : tasks_db[i].id = tasks_db[j].id => i = j
          /\ \A i \in 1..Len(tasks_db) :
                HasCompletedAt(tasks_db[i]) <=> tasks_db[i].status = "completed"

\* a complete is between its two assignments while a delete of the same task
\* is scheduled and has to wait for the loop
C28_Witness ==
    /\ loop.running = 1
    /\ loop.frames[1].at = "status set"
    /\ loop.frames[2].at = "scheduled"
    /\ loop.frames[2].command.parameters.operation = "delete"
    /\ find_task(tasks_db, "milk") # 0
    /\ tasks_db[find_task(tasks_db, "milk")].id = loop.frames[1].task.id

-----------------------------------------------------------------------------
(* The standalone entry points *)

StandaloneReturned ==
    \/ Returned("process_voice_command_standalone")
    \/ Returned("clara_voice_agent.process_voice_command")

\* C29: every standalone call starts from an empty store: the store of its
\* processor holds, when the call returns, nothing but the task this call
\* created, whatever the calls before it created
C29_StandaloneStartsEmpty ==
    StandaloneReturned =>
        /\ Len(tasks_db) <= 1
        /\ \A i \in 1..Len(tasks_db) :
              /\ tasks_db[i].id = Uuid(uuid_next)
              /\ tasks_db[i].description = DescriptionOf(cmd)

\* the second creating call: the task "todo" of an earlier call is not in the
\* store of the processor that created "hello"
C29_Witness ==
    /\ Returned("process_voice_command_standalone")
    /\ text = "hello"
    /\ uuid_next = 2
    /\ Len(tasks_db) = 1
    /\ tasks_db[1].id = "u2" /\ tasks_db[1].description = "hello"
    /\ response = "Task created: hello"

\* C30: complete_task on a task that is already completed returns "Marked as
\* completed" again, leaves the task completed, and changes neither the number
\* of tasks nor any other task, also when a pending task further on in the
\* store matches the identifier as well
C30_CompleteAgain ==
    [][ LET e == Lookup(tasks_db, text')
        IN  (Call("complete_task") /\ e # 0 /\ tasks_db[e].status = "completed") =>
               /\ response' = "Marked as completed: " \o tasks_db[e].description
               /\ Len(tasks_db') = Len(tasks_db)
               /\ tasks_db'[e].status = "completed"
               /\ HasCompletedAt(tasks_db'[e])
               /\ \A i \in 1..Len(tasks_db) : i # e => tasks_db'[i] = tasks_db[i] ]_vars

\* complete_task("MILK") on a store whose first task is completed and whose
\* second task, pending, matches too: the first was selected, the second is
\* still pending
C30_Witness ==
    /\ Returned("complete_task")
    /\ text = "MILK"
    /\ Len(tasks_db) = 2
    /\ DescriptionMatch(tasks_db, 1, "MILK") /\ tasks_db[1].status = "completed"
    /\ DescriptionMatch(tasks_db, 2, "MILK") /\ tasks_db[2].status = "pending"
    /\ tasks_db[1].created_at = 0 /\ tasks_db[1].completed_at = 1
    /\ response = "Marked as completed: " \o tasks_db[1].description

=============================================================================
